---- MODULE Spec2Model ----
(***************************************************************************)
(* NeuroViz Chat: the layout solver and entrance-animation driver of the   *)
(* reasoning graph (components/ReasoningGraph: VisualizedGraph and         *)
(* ReasoningGraph), the App state that drives them, the transcript and     *)
(* history of App, and the backend's /api/gemini handler.                  *)
(*                                                                         *)
(* The specifications share the variables:                                 *)
(*   SpecLayout  one render of VisualizedGraph (useMemo layout + JSX) on   *)
(*               a graph snapshot drawn from bounded sets;                 *)
(*   SpecLane    the same render on single-node graphs over every ordered  *)
(*               stage list, for the lane targets;                         *)
(*   SpecReplay  two invocations of the layout on one snapshot (the        *)
(*               display and a replay, which remounts VisualizedGraph);    *)
(*   SpecStyle   one render at any progress of the entrance animation, on  *)
(*               nodes of any importance, for the drawn attributes;        *)
(*   SpecTicks   the layout's tick loop, one pass at a time;               *)
(*   Spec        the App / ReasoningGraph / VisualizedGraph state machine  *)
(*               with the host's frame callbacks and timers; the           *)
(*               transcript does not reach ReasoningGraph and stays as it  *)
(*               was constructed;                                          *)
(*   SpecLive    Spec under frames whose timestamps keep growing;          *)
(*   SpecChat    App's handlers in full, with the transcript, the input    *)
(*               box and the tabs, under the frames the capture waits for; *)
(*   SpecStore   App's load and persist effects against the browser's      *)
(*               storage, across reloads of the page;                      *)
(*   SpecApi     the backend's handler on concurrent requests.             *)
(*                                                                         *)
(* Line numbers are those of components/ReasoningOverlay.tsx unless a      *)
(* file is named.  d3-force, React and the browser are not part of the     *)
(* repository: d3's numbers are left open (any outcome), React commits a   *)
(* handler's updates in one render, and the browser delivers frame         *)
(* callbacks with timestamps that never decrease, starting from 0.         *)
(***************************************************************************)
EXTENDS Integers, Sequences, FiniteSets, TLC

VARIABLES
    \* ---- one render of VisualizedGraph (SpecLayout, SpecLane) ----
    data,      \* the graph snapshot handed to VisualizedGraph (props.data)
    lpc,       \* "props": not rendered yet; "rendered": the render returned
    layout,    \* value of the useMemo: nodePositions and the solver's working copies
    view,      \* what the JSX emitted: drawn edges, drawn nodes
    first,     \* SpecReplay: the layout's previous invocation on this snapshot
    animationProgress,  \* the instance's animationProgress at this render
    \* ---- App (App.tsx): the state that reaches ReasoningGraph
    isSending,      \* a request is in flight
    vizMode,        \* AppMode
    vizData,        \* identity of the displayed explain_trace, 0 for null
    currentVizId,   \* id of the history item awaiting its thumbnail, 0 for null
    history,        \* the history items, oldest first
    nSends,         \* accepted sends so far
    \* ---- ReasoningGraph
    autoRotate,
    replayTrigger,
    captureTimer,   \* deadline of the pending capture timeout, -1 for none
    alive,          \* the React tree is mounted
    \* ---- VisualizedGraph and the host
    vg,             \* the mounted instance: its state and its effect's closure
    raf,            \* frame callbacks requested and not yet run or cancelled
    now,            \* timestamp of the host's latest frame, in ms
    obs,            \* what an observer of the driver has seen
    \* ---- the transcript side of App (App.tsx)
    messages,           \* the transcript, oldest first
    input,              \* the text of the input box
    activeHistoryItem,  \* id of the history item selected for viewing, 0 for null
    activeTab,          \* "trace" or "history"
    inFlight,           \* the placeholders whose request has not settled
    \* ---- the tick loop of the layout (lines 304-309)
    tickI,          \* the loop's counter i
    tickPc,         \* "loop", "done" (left the loop) or "caught" (line 310)
    tickCalls,      \* calls of simulation.tick() so far
    tickX0,         \* d3Nodes[0].x as the latest tick left it
    \* ---- the browser's storage and App's two history effects (App.tsx 41-56)
    storage,        \* localStorage's value under STORAGE_KEY
    storePc,        \* where the page is between a mount and its effects
    queued,         \* the setHistory update an effect queued, not yet rendered
    storedAtMount,  \* what storage held when the page was mounted
    reloads,        \* reloads of the page so far
    \* ---- the backend (backend/index.js): POST /api/gemini
    apiKey,         \* process.env.GEMINI_API_KEY || process.env.API_KEY
    requests        \* per request: where its handler is, what it was given
                    \* and what it has sent

layoutVars == <<data, lpc, layout, view, first, animationProgress>>

appVars ==
    <<isSending, vizMode, vizData, currentVizId, history, nSends, autoRotate,
      replayTrigger, captureTimer, alive, vg, raf, now, obs>>

chatVars == <<messages, input, activeHistoryItem, activeTab, inFlight>>

tickVars == <<tickI, tickPc, tickCalls, tickX0>>

\* what the specifications of the graph and of the App leave alone
storeVars == <<storage, storePc, queued, storedAtMount, reloads>>

apiVars == <<apiKey, requests>>

sideVars == <<tickVars, storeVars, apiVars>>

vars == <<layoutVars, appVars, chatVars, sideVars>>

(***************************************************************************)
(* Bounds of the model.                                                    *)
(***************************************************************************)
MaxNodes == 2       \* longest node list of a snapshot
MaxEdges == 2       \* longest edge list of a snapshot
MaxStages == 3      \* longest stage list of a snapshot (SpecLane)
MaxSends == 2       \* questions sent in one run
MaxReplays == 1     \* clicks on Replay in one run
MaxTime == 3000     \* latest frame timestamp, in ms
MaxReloads == 1     \* reloads of the page in one run
MaxRequests == 2    \* requests the backend is handling at a time

(***************************************************************************)
(* JavaScript numbers.  A number is NaN, +Infinity, -Infinity or a finite  *)
(* value; finite values are kept in fixed point, Scale units per 1.0.      *)
(***************************************************************************)
Scale == 200

Fin(v) == [k |-> "fin", v |-> v]
NaN == [k |-> "nan", v |-> 0]
PosInf == [k |-> "+inf", v |-> 0]
NegInf == [k |-> "-inf", v |-> 0]
Zero == Fin(0)

\* Number.isFinite
IsFinite(n) == n.k = "fin"

\* a <= b on numbers (false when either is NaN)
NumLe(a, b) ==
    /\ a.k # "nan" /\ b.k # "nan"
    /\ \/ a.k = "-inf"
       \/ b.k = "+inf"
       \/ a.k = "fin" /\ b.k = "fin" /\ a.v <= b.v

\* Math.min / Math.max: NaN if either argument is NaN
MathMin(a, b) ==
    IF a.k = "nan" \/ b.k = "nan" THEN NaN ELSE IF NumLe(a, b) THEN a ELSE b

MathMax(a, b) ==
    IF a.k = "nan" \/ b.k = "nan" THEN NaN ELSE IF NumLe(a, b) THEN b ELSE a

\* The animation's progress and what is derived from it are exact fractions
\* [num, den] in lowest terms.
RECURSIVE Gcd(_, _)
Gcd(a, b) == IF b = 0 THEN a ELSE Gcd(b, a % b)

Frac(n, d) == [num |-> n \div Gcd(n, d), den |-> d \div Gcd(n, d)]
P0 == Frac(0, 1)
P1 == Frac(1, 1)
FracLess(p, q) == p.num * q.den < q.num * p.den

(***************************************************************************)
(* Graph snapshots (types.ts).  A field that should hold an array is       *)
(* either an array, missing (undefined) or some other truthy non-array     *)
(* value ("object").                                                      *)
(***************************************************************************)
Arr(items) == [kind |-> "array", items |-> items]
Missing == [kind |-> "missing", items |-> <<>>]
NotArray == [kind |-> "object", items |-> <<>>]

NodeIdPool == {"a", "b"}
StageIdPool == {"s1", "s2", "s3", "s4"}
GhostStage == "s9"

\* a stage_id that names a member every object literal inherits from
\* Object.prototype (constructor, toString, ...)
InheritedKeys == {"constructor"}

\* stage_id carried by the pool's nodes
StageOfNode(id) == IF id = "a" THEN "s1" ELSE "s2"

MkNode(id, sid) == [id |-> id, stage_id |-> sid]
MkEdge(s, t) == [source |-> s, target |-> t]
MkStage(id) == [id |-> id]

\* all sequences over S of length <= n
SeqsUpTo(S, n) == UNION {[1..k -> S] : k \in 0..n}

\* sequences without repetition
Distinct(s) == \A i, j \in DOMAIN s : i # j => s[i] # s[j]

EdgePool ==
    {MkEdge("a", "b"), MkEdge("a", "a"), MkEdge("zz", "b")}

NodeLists == SeqsUpTo({MkNode(id, StageOfNode(id)) : id \in NodeIdPool}, MaxNodes)
EdgeLists == SeqsUpTo(EdgePool, MaxEdges)
StageLists ==
    {s \in SeqsUpTo({MkStage(id) : id \in StageIdPool}, MaxStages) : Distinct(s)}

\* snapshots of SpecLayout
Graphs ==
    [nodes : {Arr(ns) : ns \in NodeLists} \cup {Missing, NotArray},
     edges : {Arr(es) : es \in EdgeLists} \cup {Missing, NotArray},
     stages : {Arr(<<MkStage("s1"), MkStage("s2")>>)}]

\* Node.importance is not validated: any number
ImportancePool ==
    {Fin(0 - (5 * Scale)), Zero, Fin(Scale), Fin(100 * Scale), NaN, PosInf, NegInf}

\* snapshots of SpecStyle: two nodes joined by an edge; the first carries an
\* importance, the second has none
StyleGraphs ==
    [nodes : {Arr(<<[id |-> "a", stage_id |-> "s1", importance |-> imp],
                    MkNode("b", "s2")>>) : imp \in ImportancePool},
     edges : {Arr(<<MkEdge("a", "b")>>)},
     stages : {Arr(<<MkStage("s1"), MkStage("s2")>>)}]

\* snapshots of SpecReplay
ReplayGraphs ==
    [nodes : {Arr(<<MkNode("a", "s1")>>), Arr(<<MkNode("a", "s1"), MkNode("b", "s2")>>)},
     edges : {Arr(<<>>), Arr(<<MkEdge("a", "b")>>)},
     stages : {Arr(<<MkStage("s1"), MkStage("s2")>>)}]

\* snapshots of SpecLane: one node, no edge, every ordered stage list
LaneGraphs ==
    [nodes : {Arr(<<MkNode("a", sid)>>) :
                 sid \in StageIdPool \cup {GhostStage} \cup InheritedKeys},
     edges : {Arr(<<>>)},
     stages : {Arr(ss) : ss \in StageLists} \cup {Missing}]

(***************************************************************************)
(* Math.random.  A random stream is one run's sequence of draws; a draw is *)
(* a value in [0, 1), kept in fixed point.                                 *)
(***************************************************************************)
RandomStreams == {1, 2}

Draw(rnd, k) == ((k * 37) + (rnd * 61)) % Scale

(***************************************************************************)
(* The layout solver: VisualizedGraph's useMemo (lines 251-337).           *)
(***************************************************************************)
\* line 253: !data || !Array.isArray(data.nodes) || data.nodes.length === 0
ChecksLengthOnly(d) == d.nodes.kind = "array" /\ Len(d.nodes.items) = 0

EmptyInput(d) == d.nodes.kind # "array" \/ Len(d.nodes.items) = 0

\* line 258: Array.isArray(data.edges) ? data.edges : []
EdgesOf(d) == IF d.edges.kind = "array" THEN d.edges.items ELSE <<>>

\* line 259: data.stages || []
StagesOf(d) == IF d.stages.kind = "missing" THEN <<>> ELSE d.stages.items

\* line 262: new Set(nodes.map(n => n.id))
NodeIds(nodes) == {nodes[i].id : i \in DOMAIN nodes}

\* lines 266-270: the solver's own copy of each node, seeded randomly with
\* x, y = Math.random() * 10 - 5; index is what d3.forceSimulation assigns
\* (the node's zero-based position in the array)
D3Nodes(nodes, rnd) ==
    [i \in DOMAIN nodes |->
        [id |-> nodes[i].id,
         stage_id |-> nodes[i].stage_id,
         index |-> i - 1,
         x |-> Fin((Draw(rnd, (2 * i) - 1) * 10) - (5 * Scale)),
         y |-> Fin((Draw(rnd, 2 * i) * 10) - (5 * Scale))]]

\* Object identity.  The snapshot's objects are node i at address i and,
\* after the nodes, edge j; an object literal evaluated by the solver is a
\* new object, at an address above the snapshot's.
NodeAddr(d, i) == i

EdgeAddr(d, j) == Len(d.nodes.items) + j

SnapshotAddrs(d) == 1..(Len(d.nodes.items) + Len(d.edges.items))

\* line 266: ({ ...n, x, y }) is a new object for each node
SimulatesSnapshotNodes(d) == [i \in DOMAIN d.nodes.items |-> NodeAddr(d, i)]

D3NodeAddrs(d) ==
    [i \in DOMAIN d.nodes.items |-> Len(d.nodes.items) + Len(d.edges.items) + i]

\* line 274: ({ source, target, strength }) is a new object for each kept edge
D3LinkAddrs(d, d3Links) ==
    [k \in DOMAIN d3Links |->
        (2 * Len(d.nodes.items)) + Len(d.edges.items) + k]

\* lines 293-295: the objects d3 writes to.  forceSimulation(d3Nodes) sets
\* index, x, y, vx, vy on every node it is given; forceLink(d3Links) sets
\* index on every link and replaces its source and target by node objects
Written(d, d3Links) ==
    {D3NodeAddrs(d)[i] : i \in DOMAIN d.nodes.items}
        \cup {D3LinkAddrs(d, d3Links)[k] : k \in DOMAIN d3Links}

\* lines 272-274: the edges whose two endpoints are known node ids
KeepsAllEdges(edges, nodeIds) == edges

D3Links(edges, nodeIds) ==
    SelectSeq(edges, LAMBDA e : e.source \in nodeIds /\ e.target \in nodeIds)

\* lines 278-290: stage id -> lane target x
stageWidth == 6

StageX(stages) ==
    LET stageCount == Len(stages)
        den == IF stageCount - 1 = 0 THEN 1 ELSE stageCount - 1
        LastIndex(id) == CHOOSE i \in DOMAIN stages :
                            /\ stages[i].id = id
                            /\ \A j \in DOMAIN stages : stages[j].id = id => j <= i
    IN  [id \in {stages[i].id : i \in DOMAIN stages} |->
            (0 - ((stageWidth * Scale) \div 2))
              + ((((LastIndex(id) - 1) * stageWidth) * Scale) \div den)]

\* what stageX[key] finds for a key that line 288 never wrote: stageX is the
\* object literal {} of line 284, so an inherited member is found (a function,
\* which is truthy and no number), anything else is undefined
Inherited == [k |-> "object", v |-> 0]

\* line 298: stageX[d.stage_id] || 0
LaneTarget(stageX, sid) ==
    IF sid \in DOMAIN stageX
    THEN (IF stageX[sid] # 0 THEN Fin(stageX[sid]) ELSE Zero)
    ELSE IF sid \in InheritedKeys THEN Inherited
    ELSE Zero

(***************************************************************************)
(* d3-force (lines 293-309) is a library: the model keeps what it is       *)
(* documented to do to the arrays it is given and leaves the numbers it    *)
(* computes open.  forceLink throws "node not found" when a link names an  *)
(* id that no node carries; otherwise every tick may move every node to    *)
(* any number (finite, out of range, NaN, +-Infinity), and any call may    *)
(* throw.  A run's outcome is one record sim = [threw, out]: whether an    *)
(* exception reached the catch of line 310, and where each node was left.  *)
(***************************************************************************)
Far == 60 * Scale

SimOutcomes ==
    {[stay |-> TRUE, x |-> Zero, y |-> Zero],
     [stay |-> FALSE, x |-> NaN, y |-> NegInf],
     [stay |-> FALSE, x |-> PosInf, y |-> NaN],
     [stay |-> FALSE, x |-> NegInf, y |-> PosInf],
     [stay |-> FALSE, x |-> Fin(Far), y |-> Fin(0 - Far)],
     [stay |-> FALSE, x |-> Fin(0 - Far), y |-> Fin(Far)]}

SimRuns(n) == [threw : BOOLEAN, out : [1..n -> SimOutcomes]]

LinkNodeNotFound(d3Nodes, d3Links) ==
    \E i \in DOMAIN d3Links :
        \/ d3Links[i].source \notin NodeIds(d3Nodes)
        \/ d3Links[i].target \notin NodeIds(d3Nodes)

\* lines 292-312: the try block and its catch; the result is the working
\* copy as the simulation left it and whether the catch ran
Simulate(d3Nodes, d3Links, sim) ==
    IF LinkNodeNotFound(d3Nodes, d3Links)
    THEN [nodes |-> d3Nodes, caught |-> TRUE]
    ELSE [nodes |-> [i \in DOMAIN d3Nodes |->
                        IF sim.out[i].stay THEN d3Nodes[i]
                        ELSE [d3Nodes[i] EXCEPT !.x = sim.out[i].x, !.y = sim.out[i].y]],
          caught |-> sim.threw]

(***************************************************************************)
(* The tick loop of lines 304-309, one pass at a time.  Simulate above is  *)
(* the loop's result; here the loop's control is followed: each call of    *)
(* simulation.tick() either throws or leaves some number in d3Nodes[0].x.  *)
(***************************************************************************)
TickLimit == 300

\* line 305: i < 300
RunsOneMore(k) == k <= TickLimit

LoopCondition(k) == k < TickLimit

\* line 308: d3Nodes.length > 0 && !Number.isFinite(d3Nodes[0].x)
Exploded(n, x0) == n > 0 /\ ~IsFinite(x0)

\* what a call of simulation.tick() may leave in d3Nodes[0].x
TickResults(x0) == {x0, Fin(Far), NaN, PosInf, NegInf}

\* lines 305-309: the loop's test, then one pass of its body
Tick ==
    /\ tickPc = "loop"
    /\ IF ~LoopCondition(tickI)
       THEN /\ tickPc' = "done"
            /\ UNCHANGED <<tickI, tickCalls, tickX0>>
       ELSE /\ tickCalls' = tickCalls + 1
            /\ \/ \* simulation.tick() throws: the catch of line 310
                  /\ tickPc' = "caught"
                  /\ UNCHANGED <<tickI, tickX0>>
               \/ \E x0 \in TickResults(tickX0) :
                     /\ tickX0' = x0
                     /\ IF Exploded(Len(data.nodes.items), x0)
                        THEN tickPc' = "done" /\ tickI' = tickI
                        ELSE tickPc' = "loop" /\ tickI' = tickI + 1
    /\ UNCHANGED <<layoutVars, appVars, chatVars, storeVars, apiVars>>

NoTicks ==
    /\ tickI = 0
    /\ tickPc = "idle"
    /\ tickCalls = 0
    /\ tickX0 = Zero

\* lines 321-322: Number.isFinite(v) ? v : 0
KeepsNonFinite(v) == v

Fallback(v) == IF IsFinite(v) THEN v ELSE Zero

\* lines 325-326: Math.max(-50, Math.min(50, v))
ClampBound == 50

Clamp(v) == MathMax(Fin(0 - (ClampBound * Scale)), MathMin(Fin(ClampBound * Scale), v))

\* lines 329-331: the depth from the node's index
DepthFromSeed(index) == Fin(0)

ZMul == 1337
ZMod == 100

DepthOf(index) ==
    LET indexVal == index
        \* ((indexVal * 1337) % 100) / 100 - 0.5
        pseudoRandomZ == ((((indexVal * ZMul) % ZMod) * Scale) \div ZMod) - (Scale \div 2)
        \* zSpread = 1.5
    IN  Fin((pseudoRandomZ * 3) \div 2)

\* lines 319-334: one node's emitted position
PositionOf(node) ==
    [x |-> Clamp(Fallback(node.x)),
     y |-> Clamp(Fallback(node.y)),
     z |-> DepthOf(node.index)]

\* lines 315-334: the Map from node id to position; a later node with the
\* same id overwrites the earlier one
DropsFailedNodes(d3Nodes) ==
    LET ok == {i \in DOMAIN d3Nodes : IsFinite(d3Nodes[i].x)}
    IN  [id \in {d3Nodes[i].id : i \in ok} |->
            PositionOf(d3Nodes[CHOOSE i \in ok :
                /\ d3Nodes[i].id = id
                /\ \A j \in ok : d3Nodes[j].id = id => j <= i])]

NodePositions(d3Nodes) ==
    [id \in NodeIds(d3Nodes) |->
        PositionOf(d3Nodes[CHOOSE i \in DOMAIN d3Nodes :
            /\ d3Nodes[i].id = id
            /\ \A j \in DOMAIN d3Nodes : d3Nodes[j].id = id => j <= i])]

NoPositions == [id \in {} |-> Zero]

EmptyLayout ==
    [threw |-> FALSE, caught |-> FALSE, ran |-> FALSE, d3Nodes |-> <<>>, d3Links |-> <<>>,
     written |-> {}, stageX |-> [id \in {} |-> 0], laneX |-> <<>>,
     nodePositions |-> NoPositions]

\* lines 251-337: the whole useMemo
Layout(d, rnd, sim) ==
    IF EmptyInput(d) THEN EmptyLayout
    ELSE IF d.nodes.kind # "array"
    THEN \* nodes.map of line 262 on a value that is no array: TypeError
         [EmptyLayout EXCEPT !.threw = TRUE]
    ELSE LET nodes == d.nodes.items
             nodeIds == NodeIds(nodes)
             d3Nodes == D3Nodes(nodes, rnd)
             d3Links == D3Links(EdgesOf(d), nodeIds)
             done == Simulate(d3Nodes, d3Links, sim)
         IN  [threw |-> FALSE,
              caught |-> done.caught,
              ran |-> TRUE,
              d3Nodes |-> done.nodes,
              d3Links |-> d3Links,
              written |-> Written(d, d3Links),
              stageX |-> StageX(StagesOf(d)),
              \* the accessor given to d3.forceX, per node
              laneX |-> [i \in DOMAIN d3Nodes |->
                            LaneTarget(StageX(StagesOf(d)), d3Nodes[i].stage_id)],
              nodePositions |-> NodePositions(done.nodes)]

\* the snapshot after the layout ran: an object of the snapshot that d3
\* wrote to holds what d3 left in it
SnapshotAfter(d, l) ==
    LET addrs == D3NodeAddrs(d)
        NodeAfter(i) ==
            IF \E k \in DOMAIN addrs : addrs[k] = NodeAddr(d, i)
            THEN l.d3Nodes[CHOOSE k \in DOMAIN addrs : addrs[k] = NodeAddr(d, i)]
            ELSE d.nodes.items[i]
        EdgeAfter(j) ==
            IF EdgeAddr(d, j) \in l.written
            THEN [source |-> [id |-> d.edges.items[j].source],
                  target |-> [id |-> d.edges.items[j].target],
                  index |-> j - 1]
            ELSE d.edges.items[j]
    IN  IF ~l.ran THEN d
        ELSE [d EXCEPT !.nodes.items = [i \in DOMAIN d.nodes.items |-> NodeAfter(i)],
                       !.edges.items = [j \in DOMAIN d.edges.items |-> EdgeAfter(j)]]

(***************************************************************************)
(* What VisualizedGraph returns (lines 339-448).                           *)
(***************************************************************************)
\* lines 104-106: distance3D, squared
DistSq(p1, p2) ==
    ((p2.x.v - p1.x.v) * (p2.x.v - p1.x.v))
      + ((p2.y.v - p1.y.v) * (p2.y.v - p1.y.v))
      + ((p2.z.v - p1.z.v) * (p2.z.v - p1.z.v))

\* line 357: the shortest edge drawn is 0.01 long
MinEdgeLength == Scale \div 100

FinitePoint(p) == IsFinite(p.x) /\ IsFinite(p.y) /\ IsFinite(p.z)

\* lines 346-357: the checks an edge passes before its Line is emitted
DrawsShortEdges(pos, e) ==
    /\ e.source \in DOMAIN pos /\ e.target \in DOMAIN pos
    /\ FinitePoint(pos[e.source]) /\ FinitePoint(pos[e.target])

EdgeRenderable(pos, e) ==
    /\ e.source \in DOMAIN pos /\ e.target \in DOMAIN pos
    /\ FinitePoint(pos[e.source]) /\ FinitePoint(pos[e.target])
    /\ ~(DistSq(pos[e.source], pos[e.target]) < MinEdgeLength * MinEdgeLength)

\* lines 379-383
NodeRenderable(pos, n) == n.id \in DOMAIN pos /\ FinitePoint(pos[n.id])

\* the attributes that follow the animation's progress p, a fraction
FracMax(p, q) == IF FracLess(p, q) THEN q ELSE p

\* line 370: Math.max(0.1, 0.5 * animationProgress)
HalfProgress(p) == Frac(p.num, 2 * p.den)

EdgeOpacity(p) == FracMax(Frac(1, 10), Frac(p.num, 2 * p.den))

\* line 372: Math.max(0.1, 1 * animationProgress)
LineWidth(p) == FracMax(Frac(1, 10), p)

\* line 385: Math.max(0.01, animationProgress)
NodeScale(p) == FracMax(Frac(1, 100), p)

\* line 441: Math.max(0.01, animationProgress)
LabelOpacity(p) == FracMax(Frac(1, 100), p)

\* lines 386-387: the sphere's radius from node.importance (undefined when the
\* node has none)
SafeRadius(n) ==
    LET safeImportance ==
            IF "importance" \in DOMAIN n /\ IsFinite(n.importance)
            THEN n.importance ELSE Fin(Scale \div 2)
    IN  MathMax(Fin(Scale \div 10), Fin((Scale \div 4) + (safeImportance.v \div 10)))

NothingDrawn ==
    [threw |-> FALSE, null |-> TRUE, edges |-> {}, nodes |-> {}, labels |-> {},
     lines |-> <<>>, spheres |-> <<>>, texts |-> <<>>]

View(d, l) ==
    IF l.threw THEN [NothingDrawn EXCEPT !.threw = TRUE, !.null = FALSE]
    \* line 340
    ELSE IF DOMAIN l.nodePositions = {} THEN NothingDrawn
    \* line 345: data.edges && data.edges.map(...): a truthy value that is
    \* no array has no map
    ELSE IF d.edges.kind = "object"
    THEN [NothingDrawn EXCEPT !.threw = TRUE, !.null = FALSE]
    ELSE LET edges == {i \in DOMAIN d.edges.items :
                          EdgeRenderable(l.nodePositions, d.edges.items[i])}
             nodes == {i \in DOMAIN d.nodes.items :
                          NodeRenderable(l.nodePositions, d.nodes.items[i])}
             \* lines 418-430: a stage with at least one node gets its label
             \* (the average x of finite positions is finite)
             labels == {i \in DOMAIN StagesOf(d) :
                          \E k \in DOMAIN d.nodes.items :
                              d.nodes.items[k].stage_id = StagesOf(d)[i].id}
         IN  [threw |-> FALSE,
              null |-> FALSE,
              edges |-> edges,
              nodes |-> nodes,
              labels |-> labels,
              lines |-> [i \in edges |->
                            [opacity |-> EdgeOpacity(animationProgress),
                             lineWidth |-> LineWidth(animationProgress)]],
              spheres |-> [i \in nodes |->
                            [scale |-> NodeScale(animationProgress),
                             radius |-> SafeRadius(d.nodes.items[i])]],
              texts |-> [i \in labels |->
                            [fillOpacity |-> LabelOpacity(animationProgress)]]]

(***************************************************************************)
(* The entrance animation (lines 230-248) and the host's frame callbacks.  *)
(***************************************************************************)
Duration == 1500

Undefined == 0 - 1

\* JavaScript's !start for `let start: number`: undefined and 0 are falsy
Falsy(start) == start = Undefined \/ start = 0

\* line 239: Math.min((timestamp - start) / 1500, 1)
StuckAtZero(timestamp, start) == P0

RawProgress(timestamp, start) ==
    IF timestamp - start >= Duration THEN P1 ELSE Frac(timestamp - start, Duration)

\* d3.easeCubicOut(t) = 1 - (1 - t)^3
EaseCubicOut(t) ==
    LET u == t.den - t.num
    IN  Frac((t.den * t.den * t.den) - (u * u * u), t.den * t.den * t.den)

\* a handle no pending callback holds: the smallest such positive number
FreshId(used) ==
    CHOOSE i \in 1..(Cardinality(used) + 1) :
        i \notin used /\ \A j \in 1..(i - 1) : j \in used

\* requestAnimationFrame(animate): a callback closed over one effect run's
\* `start`, bound to the instance whose setAnimationProgress it calls
Request(id, start, run, inst) == [id |-> id, start |-> start, run |-> run, inst |-> inst]

\* line 247: cancelAnimationFrame(animId)
LeavesTickPending(q, animId) == q

CancelAnimationFrame(q, animId) == {e \in q : e.id # animId}

Unmounted ==
    [mounted |-> FALSE, key |-> 0, data |-> 0, progress |-> P0,
     start |-> Undefined, animId |-> 0, run |-> 0, inst |-> 0]

NothingSeen ==
    [firstTickAt |-> Undefined, lastTickAt |-> Undefined,
     cancelledPending |-> FALSE, staleTickRan |-> FALSE,
     \* runs of the layout memo's body so far, modulo 2
     layoutRuns |-> 0]

\* The world of the driver: the instance, the frame queue and the observer.
World(v, q, o) == [vg |-> v, raf |-> q, obs |-> o]

\* lines 247, 233-246: the effect's cleanup
CleanupAnimation(w) ==
    World(w.vg,
          CancelAnimationFrame(w.raf, w.vg.animId),
          [w.obs EXCEPT !.cancelledPending =
              @ \/ (\E e \in w.raf : e.id = w.vg.animId)])

\* lines 233-246: the effect's body up to its first requestAnimationFrame
RunAnimationEffect(w, d) ==
    LET id == FreshId({e.id : e \in w.raf})
        run == FreshId({e.run : e \in w.raf})
    IN  World([w.vg EXCEPT !.progress = P0, !.start = Undefined, !.animId = id,
                           !.run = run, !.data = d],
              w.raf \cup {Request(id, Undefined, run, w.vg.inst)},
              [w.obs EXCEPT !.firstTickAt = Undefined, !.lastTickAt = Undefined])

\* line 337: the memo's dependencies [data] against the last render's
MemoRunsEachRender(v, d) == TRUE

MemoDepsChanged(v, d) == v.data # d

\* lines 251-337: the body of the layout memo runs
RunLayoutMemo(w) == World(w.vg, w.raf, [w.obs EXCEPT !.layoutRuns = 1 - @])

\* a new instance: useState(0), the first render (which runs the memo's
\* body), then its effects
Mount(w, key, d) ==
    LET inst == FreshId({e.inst : e \in w.raf})
    IN  RunAnimationEffect(
            RunLayoutMemo(
                World([Unmounted EXCEPT !.mounted = TRUE, !.key = key, !.inst = inst],
                      w.raf, w.obs)), d)

Unmount(w) ==
    LET c == CleanupAnimation(w)
    IN  World(Unmounted, c.raf, c.obs)

\* line 522: onReplay={() => setReplayTrigger(...)} is a new function on
\* every render of ReasoningGraph
OnReplayChanged == TRUE

\* line 248: the effect's dependencies [data, onReplay] against the last run's
DepsChanged(v, d) == v.data # d \/ OnReplayChanged

\* lines 519-525: what a render of ReasoningGraph does to VisualizedGraph
RenderChild(w, mode, key, d) ==
    IF mode # "VISUALIZING"
    THEN IF w.vg.mounted THEN Unmount(w) ELSE w
    ELSE IF ~w.vg.mounted THEN Mount(w, key, d)
    ELSE IF w.vg.key # key THEN Mount(Unmount(w), key, d)
    ELSE LET m == IF MemoDepsChanged(w.vg, d) THEN RunLayoutMemo(w) ELSE w
         IN  IF DepsChanged(w.vg, d) THEN RunAnimationEffect(CleanupAnimation(m), d)
             ELSE m

\* lines 237-245: one call of animate(timestamp) for the request e
Animate(w, e, timestamp) ==
    LET start == IF Falsy(e.start) THEN timestamp ELSE e.start
        progress == RawProgress(timestamp, start)
        live == w.vg.mounted /\ e.run = w.vg.run
        shown == w.vg.mounted /\ e.inst = w.vg.inst
        id == FreshId({x.id : x \in w.raf} \cup {e.id})
        more == FracLess(progress, P1)
        v1 == IF shown THEN [w.vg EXCEPT !.progress = EaseCubicOut(progress)] ELSE w.vg
        \* setAnimationProgress renders the instance again, with the same data
        again == shown /\ MemoDepsChanged(w.vg, w.vg.data)
        v2 == IF live THEN [v1 EXCEPT !.start = start,
                                      !.animId = IF more THEN id ELSE @]
              ELSE v1
    IN  World(v2,
              IF more THEN w.raf \cup {Request(id, start, e.run, e.inst)} ELSE w.raf,
              [w.obs EXCEPT
                  !.layoutRuns = IF again THEN 1 - @ ELSE @,
                  !.firstTickAt = IF live /\ @ = Undefined THEN timestamp ELSE @,
                  !.lastTickAt = IF live THEN timestamp ELSE @,
                  !.staleTickRan = @ \/ ~live])

\* the host runs the callbacks that were requested before this frame, in the
\* order they were requested
RECURSIVE RunCallbacks(_, _, _)
RunCallbacks(w, todo, timestamp) ==
    IF todo = {} THEN w
    ELSE LET e == CHOOSE x \in todo : \A y \in todo : x.id <= y.id
         IN  RunCallbacks(Animate(w, e, timestamp), todo \ {e}, timestamp)

\* gaps between two frames of the host, in ms; timestamps never decrease
FrameGaps == {0, 700, 800, 1500}

\* the host's next frame, gap ms after the latest
FrameAfter(gap) ==
    /\ now + gap <= MaxTime
    /\ now' = now + gap
    /\ LET w == RunCallbacks(World(vg, {}, obs), raf, now + gap)
       IN  /\ vg' = w.vg
           /\ raf' = w.raf
           /\ obs' = w.obs
    /\ UNCHANGED <<isSending, vizMode, vizData, currentVizId, history, nSends,
                   autoRotate, replayTrigger, captureTimer, alive, layoutVars,
                   chatVars, sideVars>>

Frame == \E gap \in FrameGaps : FrameAfter(gap)

(***************************************************************************)
(* ReasoningGraph (lines 451-559) under App (App.tsx).  A handler's state  *)
(* updates are committed in one render, and the commit runs the effects'   *)
(* cleanups and bodies before the host runs another callback.  React.memo  *)
(* re-renders ReasoningGraph only when mode, data or onCapture changed, or *)
(* when its own state was set.                                             *)
(***************************************************************************)
CaptureDelay == 800

\* App.tsx line 205: onCapture={currentVizId ? handleThumbnailCapture : undefined}
OnCapture(cur) == cur # 0

\* lines 456-465: the capture effect, run when onCapture changed
NeverClearsTimer(timer, cur) ==
    IF OnCapture(cur) /\ ~OnCapture(currentVizId) THEN now + CaptureDelay ELSE timer

CaptureEffect(timer, cur) ==
    IF OnCapture(currentVizId) = OnCapture(cur) THEN timer
    ELSE IF OnCapture(cur) THEN now + CaptureDelay
    ELSE Undefined

\* one commit: the new App state (mode, vd, cur) and the new ReasoningGraph
\* state (rot, rt), with the timer as the handler left it
Commit(mode, vd, cur, rot, rt, timer) ==
    LET rendered == \/ vizMode # mode \/ vizData # vd
                    \/ OnCapture(currentVizId) # OnCapture(cur)
                    \/ autoRotate # rot \/ replayTrigger # rt
        w == IF rendered THEN RenderChild(World(vg, raf, obs), mode, rt, vd)
             ELSE World(vg, raf, obs)
    IN  /\ vizMode' = mode
        /\ vizData' = vd
        /\ currentVizId' = cur
        /\ autoRotate' = rot
        /\ replayTrigger' = rt
        /\ captureTimer' = CaptureEffect(timer, cur)
        /\ vg' = w.vg
        /\ raf' = w.raf
        /\ obs' = w.obs
        /\ alive' = alive

\* App.tsx lines 59-88, for an input that is not blank: what the handler
\* does to the state that reaches ReasoningGraph
HandleSendMessage ==
    /\ alive
    /\ ~isSending
    /\ nSends < MaxSends
    /\ isSending' = TRUE
    /\ nSends' = nSends + 1
    /\ Commit("THINKING", 0, 0, autoRotate, replayTrigger, captureTimer)
    /\ UNCHANGED <<history, now, layoutVars, sideVars>>

\* App.tsx lines 91-113, 124-126: the request resolved
ResponseArrives ==
    /\ alive
    /\ isSending
    /\ LET newHistoryId == Len(history) + 1
       IN  /\ history' = Append(history, [id |-> newHistoryId, thumbnail |-> FALSE,
                                           captures |-> 0])
           /\ Commit("VISUALIZING", newHistoryId, newHistoryId, autoRotate,
                     replayTrigger, captureTimer)
    /\ isSending' = FALSE
    /\ UNCHANGED <<nSends, now, layoutVars, sideVars>>

\* App.tsx lines 115-126: the request rejected
RequestFails ==
    /\ alive
    /\ isSending
    /\ isSending' = FALSE
    /\ Commit("IDLE", vizData, currentVizId, autoRotate, replayTrigger, captureTimer)
    /\ UNCHANGED <<history, nSends, now, layoutVars, sideVars>>

\* App.tsx lines 129-138, for a traceId that history.find finds
ViewReasoning(traceId) ==
    /\ alive
    /\ \E i \in DOMAIN history : history[i].id = traceId
    /\ Commit("VISUALIZING", traceId, 0, autoRotate, replayTrigger, captureTimer)
    /\ UNCHANGED <<isSending, history, nSends, now, layoutVars, sideVars>>

HandleViewReasoning == \E traceId \in 1..MaxSends : ViewReasoning(traceId)

\* App.tsx lines 140-146, for the history item at index i
SelectHistoryItem(i) ==
    /\ alive
    /\ Commit("VISUALIZING", history[i].id, 0, autoRotate, replayTrigger, captureTimer)
    /\ UNCHANGED <<isSending, history, nSends, now, layoutVars, sideVars>>

HandleSelectHistoryItem == \E i \in DOMAIN history : SelectHistoryItem(i)

\* App.tsx lines 148-160: what handleThumbnailCapture leaves in history
\* when currentVizId is prevId
StampsEveryItem(hist, prevId) ==
    [i \in DOMAIN hist |-> [hist[i] EXCEPT !.thumbnail = TRUE, !.captures = @ + 1]]

HandleThumbnailCapture(hist, prevId) ==
    IF prevId # 0
    THEN [i \in DOMAIN hist |->
            IF hist[i].id = prevId
            THEN [hist[i] EXCEPT !.thumbnail = TRUE, !.captures = @ + 1]
            ELSE hist[i]]
    ELSE hist

\* lines 458-462 and App.tsx lines 148-160: the capture timeout fires and
\* calls handleThumbnailCapture
CaptureTimerFires ==
    /\ alive
    /\ captureTimer # Undefined
    /\ now >= captureTimer
    /\ history' = HandleThumbnailCapture(history, currentVizId)
    /\ Commit(vizMode, vizData, 0, autoRotate, replayTrigger, Undefined)
    /\ UNCHANGED <<isSending, nSends, now, layoutVars,
                   chatVars, sideVars>>

\* line 533: the auto-rotation button
ToggleAutoRotate ==
    /\ alive
    /\ vizMode = "VISUALIZING"
    /\ Commit(vizMode, vizData, currentVizId, ~autoRotate, replayTrigger, captureTimer)
    /\ UNCHANGED <<isSending, history, nSends, now, layoutVars,
                   chatVars, sideVars>>

\* line 540: the Replay button
ReplayClick ==
    /\ alive
    /\ vizMode = "VISUALIZING"
    /\ replayTrigger < MaxReplays
    /\ Commit(vizMode, vizData, currentVizId, autoRotate, replayTrigger + 1, captureTimer)
    /\ UNCHANGED <<isSending, history, nSends, now, layoutVars,
                   chatVars, sideVars>>

\* the React tree is unmounted: the cleanups of lines 463 and 247 run, and
\* no handler runs any more
TearDown ==
    /\ alive
    /\ alive' = FALSE
    /\ captureTimer' = Undefined
    /\ LET w == IF vg.mounted THEN Unmount(World(vg, raf, obs)) ELSE World(vg, raf, obs)
       IN  /\ vg' = w.vg
           /\ raf' = w.raf
           /\ obs' = w.obs
    /\ UNCHANGED <<isSending, vizMode, vizData, currentVizId, history, nSends,
                   autoRotate, replayTrigger, now, layoutVars,
                   chatVars, sideVars>>

(***************************************************************************)
(* The transcript side of App (App.tsx) and ChatPanel.  uuidv4 gives ids   *)
(* no other message or item has: the k-th accepted send names its user     *)
(* message 2k - 1 and its placeholder 2k.                                  *)
(***************************************************************************)
InputPool == {"", " ", "q"}

\* String.prototype.trim
NoTrim(text) == text

Trim(text) == IF text = " " THEN "" ELSE text

Thinking == "Thinking..."
Sorry == "Sorry, something went wrong."
Answer == "answer"

\* types.ts lines 37-44; traceId 0 stands for an absent traceId
Message(id, role, text, isThinking, traceId) ==
    [id |-> id, role |-> role, text |-> text, isThinking |-> isThinking,
     traceId |-> traceId]

\* App.tsx lines 102-107, 117-122: prev.map(m => m.id === aiMsgId ? ... : m)
RewritesEveryMessage(prev, aiMsgId, text, traceId) ==
    [i \in DOMAIN prev |->
        [prev[i] EXCEPT !.text = text, !.isThinking = FALSE, !.traceId = traceId]]

SettleMessage(prev, aiMsgId, text, traceId) ==
    [i \in DOMAIN prev |->
        IF prev[i].id = aiMsgId
        THEN [prev[i] EXCEPT !.text = text, !.isThinking = FALSE,
                             !.traceId = IF traceId = 0 THEN @ ELSE traceId]
        ELSE prev[i]]

\* ChatPanel.tsx line 113: onChange={(e) => setInput(e.target.value)}; the
\* box is disabled while a send is in progress (line 115)
SetInput ==
    \E value \in InputPool :
        /\ alive
        /\ ~isSending
        /\ value # input
        /\ input' = value
        /\ UNCHANGED <<messages, activeHistoryItem, activeTab, inFlight, layoutVars,
                       appVars, sideVars>>

\* App.tsx lines 215-239: the tab buttons
SetActiveTab ==
    \E tab \in {"trace", "history"} :
        /\ alive
        /\ tab # activeTab
        /\ activeTab' = tab
        /\ UNCHANGED <<messages, input, activeHistoryItem, inFlight, layoutVars,
                       appVars, sideVars>>

\* App.tsx lines 59-88: handleSendMessage up to the await; Enter reaches it
\* in any state (ChatPanel.tsx lines 31-36), and line 60 returns when the
\* trimmed input is empty or a send is in progress
OnSend ==
    /\ Trim(input) # ""
    /\ HandleSendMessage
    /\ LET userMsgId == (2 * nSends) + 1
           aiMsgId == (2 * nSends) + 2
       IN  /\ messages' = messages \o <<Message(userMsgId, "user", Trim(input), FALSE, 0),
                                         Message(aiMsgId, "ai", Thinking, TRUE, 0)>>
           /\ inFlight' = inFlight \cup {aiMsgId}
    /\ input' = ""
    /\ activeHistoryItem' = 0
    /\ activeTab' = "trace"

\* App.tsx lines 91-113, 124-126: the request of the placeholder aiMsgId
\* resolved
OnResponse ==
    \E aiMsgId \in inFlight :
        /\ ResponseArrives
        /\ messages' = SettleMessage(messages, aiMsgId, Answer, Len(history) + 1)
        /\ inFlight' = inFlight \ {aiMsgId}
        /\ UNCHANGED <<input, activeHistoryItem, activeTab>>

\* App.tsx lines 115-126: the request of the placeholder aiMsgId rejected
OnError ==
    \E aiMsgId \in inFlight :
        /\ RequestFails
        /\ messages' = SettleMessage(messages, aiMsgId, Sorry, 0)
        /\ inFlight' = inFlight \ {aiMsgId}
        /\ UNCHANGED <<input, activeHistoryItem, activeTab>>

\* ChatPanel.tsx lines 89-96 and App.tsx lines 129-138: the button of an
\* answered message that carries a traceId
OnViewReasoning ==
    \E i \in DOMAIN messages :
        /\ messages[i].role = "ai"
        /\ ~messages[i].isThinking
        /\ messages[i].traceId # 0
        /\ ViewReasoning(messages[i].traceId)
        /\ activeHistoryItem' = messages[i].traceId
        /\ activeTab' = "trace"
        /\ UNCHANGED <<messages, input, inFlight>>

\* ReasoningGallery.tsx line 41 and App.tsx lines 140-146: a click on an
\* item of the gallery, which the history tab shows (App.tsx lines 244-252)
OnSelectHistory ==
    \E i \in DOMAIN history :
        /\ activeTab = "history"
        /\ SelectHistoryItem(i)
        /\ activeHistoryItem' = history[i].id
        /\ activeTab' = "trace"
        /\ UNCHANGED <<messages, input, inFlight>>

\* the host's frames while the capture timeout is pending
CaptureWait == FrameAfter(CaptureDelay)

(***************************************************************************)
(* App's history effects (App.tsx lines 41-56) and the browser's storage.  *)
(* A stored text is JSON (written by JSON.stringify), something that does  *)
(* not parse, the empty string, or absent (getItem gives null).  The       *)
(* storage accepts every write, and the page lives until React has         *)
(* rendered the update its effects queued.                                 *)
(***************************************************************************)
Json(items) == [kind |-> "json", items |-> items]
Unparsable == [kind |-> "garbage", items |-> <<>>]
EmptyText == [kind |-> "empty", items |-> <<>>]
Null == [kind |-> "null", items |-> <<>>]

\* JSON.stringify(history): a property whose value is undefined (an item
\* without thumbnail) is left out
JsonStringify(hist) ==
    Json([i \in DOMAIN hist |->
            IF hist[i].thumbnail THEN [id |-> hist[i].id, thumbnail |-> "png"]
            ELSE [id |-> hist[i].id]])

\* JSON.parse(stored) on a text that parses
JsonParse(text) ==
    [i \in DOMAIN text.items |->
        [id |-> text.items[i].id,
         thumbnail |-> "thumbnail" \in DOMAIN text.items[i],
         captures |-> 0]]

NoUpdate == [set |-> FALSE, value |-> <<>>]

\* App.tsx lines 43-50: the update the load effect queues for a stored text
IgnoresStored(stored) == NoUpdate

Loaded(stored) ==
    IF stored.kind = "json" THEN [set |-> TRUE, value |-> JsonParse(stored)]
    ELSE NoUpdate

otherAppVars ==
    <<isSending, vizMode, vizData, currentVizId, nSends, autoRotate, replayTrigger,
      captureTimer, alive, vg, raf, now, obs>>

\* App.tsx lines 42-51: the load effect of the mount
LoadEffect ==
    /\ storePc = "mounted"
    /\ queued' = Loaded(storage)
    /\ storePc' = "loaded"
    /\ UNCHANGED <<storage, storedAtMount, reloads, history, otherAppVars, layoutVars,
                   chatVars, tickVars, apiVars>>

\* App.tsx lines 54-56: the persist effect, after the mount's load effect
\* and after every render in which history changed
PersistEffect ==
    /\ storePc \in {"loaded", "changed"}
    /\ storage' = JsonStringify(history)
    /\ storePc' = IF queued.set THEN "queued" ELSE "idle"
    /\ UNCHANGED <<queued, storedAtMount, reloads, history, otherAppVars, layoutVars,
                   chatVars, tickVars, apiVars>>

\* React renders the update the load effect queued
RenderQueued ==
    /\ storePc = "queued"
    /\ history' = queued.value
    /\ queued' = NoUpdate
    /\ storePc' = "changed"
    /\ UNCHANGED <<storage, storedAtMount, reloads, otherAppVars, layoutVars, chatVars,
                   tickVars, apiVars>>

\* App.tsx lines 109, 151-155: a handler's setHistory, rendered
HistoryChanges ==
    /\ storePc = "idle"
    /\ \/ /\ Len(history) < MaxSends
          /\ history' = Append(history, [id |-> Len(history) + 1, thumbnail |-> FALSE,
                                          captures |-> 0])
       \/ \E i \in DOMAIN history :
             /\ ~history[i].thumbnail
             /\ history' = HandleThumbnailCapture(history, history[i].id)
    /\ storePc' = "changed"
    /\ UNCHANGED <<storage, queued, storedAtMount, reloads, otherAppVars, layoutVars,
                   chatVars, tickVars, apiVars>>

\* the page is loaded again: useState([]) and the first render
Reload ==
    /\ storePc = "idle"
    /\ reloads < MaxReloads
    /\ reloads' = reloads + 1
    /\ history' = <<>>
    /\ queued' = NoUpdate
    /\ storedAtMount' = storage
    /\ storePc' = "mounted"
    /\ UNCHANGED <<storage, otherAppVars, layoutVars, chatVars, tickVars,
                   apiVars>>

NoStore ==
    /\ storage = Null
    /\ storePc = "off"
    /\ queued = NoUpdate
    /\ storedAtMount = Null
    /\ reloads = 0

\* what an earlier session may have left in storage
StoredTexts ==
    {Null, EmptyText, Unparsable, Json(<<>>), Json(<<[id |-> 1]>>),
     Json(<<[id |-> 1, thumbnail |-> "png"], [id |-> 2]>>)}

(***************************************************************************)
(* The backend's POST /api/gemini (backend/index.js lines 77-214).  The    *)
(* file is an ES module, so its code is strict: writing a property on a    *)
(* primitive throws.  Each await settles with whatever the upstream service *)
(* sends, or rejects.  res.json serialises with JSON.stringify, which      *)
(* writes an array as its elements and drops the properties set on it.     *)
(***************************************************************************)
Prompts == {"undefined", "", "q"}

\* line 80: !prompt
PromptMissing(prompt) == prompt \in {"undefined", ""}

TraceKeys ==
    {"stages", "nodes", "edges", "steps", "key_factors", "confidence", "timestamp"}

\* a serialised explain_trace: what kind of value, and the keys it carries
\* with the ones whose value the model wrote
Trace(kind, keys, given) == [kind |-> kind, keys |-> keys, given |-> given]

\* lines 13-23
DefaultExplainTrace == Trace("object", TraceKeys, {})

NoTrace == Trace("absent", {}, {})

\* the model's text after lines 146-182 (fences stripped, trimmed)
RawTexts ==
    {"", "plain", "null", "42", "[]", "{}", "{a}", "{a,t:null}", "{a,t:1}",
     "{a,t:[]}", "{a,t:{}}", "{a,t:{nodes}}", "{a,t:full}"}

\* JSON.parse(rawText): invalid, or the value read
Value(kind, answer, trace) == [kind |-> kind, answer |-> answer, trace |-> trace]

JsonParseOutput(rawText) ==
    CASE rawText \in {"", "plain"} -> Value("invalid", "", NoTrace)
      [] rawText = "null" -> Value("null", "", NoTrace)
      [] rawText = "42" -> Value("prim", "", NoTrace)
      [] rawText = "[]" -> Value("array", "", NoTrace)
      [] rawText = "{}" -> Value("object", "", NoTrace)
      [] rawText = "{a}" -> Value("object", "a", NoTrace)
      [] rawText = "{a,t:null}" -> Value("object", "a", Trace("falsy", {}, {}))
      [] rawText = "{a,t:1}" -> Value("object", "a", Trace("prim", {}, {}))
      [] rawText = "{a,t:[]}" -> Value("object", "a", Trace("array", {}, {}))
      [] rawText = "{a,t:{}}" -> Value("object", "a", Trace("object", {}, {}))
      [] rawText = "{a,t:{nodes}}" -> Value("object", "a", Trace("object", {"nodes"}, {"nodes"}))
      [] rawText = "{a,t:full}" -> Value("object", "a", Trace("object", TraceKeys, TraceKeys))

Response(status, body) == [status |-> status, body |-> body]

\* bodies of the error responses
ErrorBody == Value("error", "", NoTrace)

EmptyAnswer == "Model returned empty response"

\* lines 198-205: explain_trace after the defaults are filled in, as
\* JSON.stringify writes it; "throws" when a property is written on a
\* primitive
Ensured(trace) ==
    CASE trace.kind \in {"absent", "falsy"} -> DefaultExplainTrace
      [] trace.kind = "prim" -> Trace("throws", {}, {})
      [] trace.kind = "array" -> Trace("array", {}, {})
      [] trace.kind = "object" -> Trace("object", TraceKeys, trace.given)

\* lines 184-213: the response for the model's text
ResponseFor(rawText) ==
    LET parsed == JsonParseOutput(rawText)
    IN  CASE parsed.kind = "invalid"
               -> Response(200, Value("object",
                                      IF rawText = "" THEN EmptyAnswer ELSE rawText,
                                      DefaultExplainTrace))
          [] parsed.kind \in {"null", "prim"} -> Response(500, ErrorBody)
          [] parsed.kind = "array" -> Response(200, Value("array", "", NoTrace))
          [] parsed.kind = "object"
               -> IF Ensured(parsed.trace).kind = "throws" THEN Response(500, ErrorBody)
                  ELSE Response(200, Value("object", parsed.answer, Ensured(parsed.trace)))

\* what the ListModels call may settle with: a rejected fetch, a text that
\* does not parse, JSON null, JSON without a usable model, a usable model
ListOutcomes == {"rejected", "unparsable", "null", "nomodel", "model"}

\* what the generateContent call may settle with: a rejected fetch, a text
\* that does not parse, JSON null, an error object, a shape whose extraction
\* throws, or JSON from which lines 146-182 extract a text
GenerateOutcomes ==
    {[kind |-> k, rawText |-> ""] : k \in {"rejected", "unparsable", "null", "error", "odd"}}
        \cup {[kind |-> "text", rawText |-> t] : t \in RawTexts}

NoOutcome == [kind |-> "none", rawText |-> ""]

IdleRequest ==
    [pc |-> "idle", prompt |-> "undefined", list |-> "none", generate |-> NoOutcome,
     upstream |-> 0, responses |-> <<>>]

\* res.status(...).json(...) and the handler's return
Respond(rq, response) ==
    [rq EXCEPT !.pc = "done", !.responses = Append(@, response)]

\* lines 78-86: a request arrives and is validated; the handler answers or
\* calls ListModels
Receive ==
    \E r \in 1..MaxRequests : \E prompt \in Prompts :
        /\ requests[r].pc = "idle"
        /\ LET rq == [requests[r] EXCEPT !.prompt = prompt]
           IN  requests' =
                 [requests EXCEPT ![r] =
                    IF PromptMissing(prompt) THEN Respond(rq, Response(400, ErrorBody))
                    ELSE IF apiKey = "undefined" THEN Respond(rq, Response(500, ErrorBody))
                    ELSE [rq EXCEPT !.pc = "listing", !.upstream = 1]]
        /\ UNCHANGED <<apiKey, layoutVars, appVars, chatVars, tickVars, storeVars>>

\* lines 86-121: the ListModels call settles; the handler answers or calls
\* generateContent
ListSettles ==
    \E r \in 1..MaxRequests : \E out \in ListOutcomes :
        /\ requests[r].pc = "listing"
        /\ LET rq == [requests[r] EXCEPT !.list = out]
           IN  requests' =
                 [requests EXCEPT ![r] =
                    CASE out = "unparsable" -> Respond(rq, Response(502, ErrorBody))
                      [] out \in {"rejected", "null", "nomodel"}
                           -> Respond(rq, Response(500, ErrorBody))
                      [] out = "model" -> [rq EXCEPT !.pc = "generating", !.upstream = 2]]
        /\ UNCHANGED <<apiKey, layoutVars, appVars, chatVars, tickVars, storeVars>>

\* lines 117-213: the generateContent call settles and the handler answers
GenerateSettles ==
    \E r \in 1..MaxRequests : \E out \in GenerateOutcomes :
        /\ requests[r].pc = "generating"
        /\ LET rq == [requests[r] EXCEPT !.generate = out]
           IN  requests' =
                 [requests EXCEPT ![r] =
                    CASE out.kind \in {"unparsable", "error"}
                           -> Respond(rq, Response(502, ErrorBody))
                      [] out.kind \in {"rejected", "null", "odd"}
                           -> Respond(rq, Response(500, ErrorBody))
                      [] out.kind = "text" -> Respond(rq, ResponseFor(out.rawText))]
        /\ UNCHANGED <<apiKey, layoutVars, appVars, chatVars, tickVars, storeVars>>

NoApi ==
    /\ apiKey = "undefined"
    /\ requests = [r \in 1..MaxRequests |-> IdleRequest]

InitChat ==
    /\ messages = <<>>
    /\ input = ""
    /\ activeHistoryItem = 0
    /\ activeTab = "trace"
    /\ inFlight = {}

InitApp ==
    /\ isSending = FALSE
    /\ vizMode = "IDLE"
    /\ vizData = 0
    /\ currentVizId = 0
    /\ history = <<>>
    /\ nSends = 0
    /\ autoRotate = FALSE
    /\ replayTrigger = 0
    /\ captureTimer = Undefined
    /\ alive = TRUE
    /\ vg = Unmounted
    /\ raf = {}
    /\ now = 0
    /\ obs = NothingSeen

\* one render of VisualizedGraph: the layout memo, then the JSX
RenderVisualizedGraph ==
    /\ lpc = "props"
    /\ \E rnd \in RandomStreams : \E sim \in SimRuns(Len(data.nodes.items)) :
          /\ layout' = Layout(data, rnd, sim)
          /\ view' = View(data, layout')
    /\ data' = SnapshotAfter(data, layout')
    /\ lpc' = "rendered"
    /\ UNCHANGED <<first, animationProgress, appVars, chatVars, sideVars>>

NoFirst ==
    [rnd |-> 0, sim |-> [threw |-> FALSE, out |-> <<>>], nodePositions |-> NoPositions]

\* the first invocation: VisualizedGraph mounts with the snapshot
Display ==
    /\ lpc = "props"
    /\ \E rnd \in RandomStreams : \E sim \in SimRuns(Len(data.nodes.items)) :
          /\ layout' = Layout(data, rnd, sim)
          /\ view' = View(data, layout')
          /\ first' = [rnd |-> rnd, sim |-> sim, nodePositions |-> layout'.nodePositions]
    /\ data' = SnapshotAfter(data, layout')
    /\ lpc' = "rendered"
    /\ UNCHANGED <<animationProgress, appVars, chatVars, sideVars>>

\* the second invocation: lines 523, 540 remount VisualizedGraph on the same
\* snapshot, and the new instance's useMemo runs the layout again.  d3 is
\* taken to repeat itself on equal input: with the same seeds it does what
\* it did before
Replay ==
    /\ lpc = "rendered"
    /\ \E rnd \in RandomStreams : \E sim \in SimRuns(Len(data.nodes.items)) :
          /\ D3Nodes(data.nodes.items, rnd) = D3Nodes(data.nodes.items, first.rnd)
                => sim = first.sim
          /\ layout' = Layout(data, rnd, sim)
          /\ view' = View(data, layout')
    /\ data' = SnapshotAfter(data, layout')
    /\ lpc' = "replayed"
    /\ UNCHANGED <<first, animationProgress, appVars, chatVars, sideVars>>

NoRender ==
    /\ data = [nodes |-> Missing, edges |-> Missing, stages |-> Missing]
    /\ lpc = "props"
    /\ layout = EmptyLayout
    /\ view = NothingDrawn
    /\ first = NoFirst
    /\ animationProgress = P0

InitLayout ==
    /\ data \in Graphs
    /\ lpc = "props"
    /\ layout = EmptyLayout
    /\ view = NothingDrawn
    /\ first = NoFirst
    /\ animationProgress = P0
    /\ InitApp /\ InitChat /\ NoTicks /\ NoStore /\ NoApi

InitLane ==
    /\ data \in LaneGraphs
    /\ lpc = "props"
    /\ layout = EmptyLayout
    /\ view = NothingDrawn
    /\ first = NoFirst
    /\ animationProgress = P0
    /\ InitApp /\ InitChat /\ NoTicks /\ NoStore /\ NoApi

\* the progress a tick leaves, by the time since the playback's start
TickOffsets == {0, 100, 700, 800, 1400, 1500}

ProgressValues == {EaseCubicOut(RawProgress(t, 0)) : t \in TickOffsets}

InitStyle ==
    /\ data \in StyleGraphs
    /\ lpc = "props"
    /\ layout = EmptyLayout
    /\ view = NothingDrawn
    /\ first = NoFirst
    /\ animationProgress \in ProgressValues
    /\ InitApp /\ InitChat /\ NoTicks /\ NoStore /\ NoApi

InitReplay ==
    /\ data \in ReplayGraphs
    /\ lpc = "props"
    /\ layout = EmptyLayout
    /\ view = NothingDrawn
    /\ first = NoFirst
    /\ animationProgress = P0
    /\ InitApp /\ InitChat /\ NoTicks /\ NoStore /\ NoApi

Init == NoRender /\ InitApp /\ InitChat /\ NoTicks /\ NoStore /\ NoApi

\* the layout has reached the loop of line 305 on a non-empty snapshot
InitTicks ==
    /\ data \in ReplayGraphs
    /\ lpc = "props"
    /\ layout = EmptyLayout
    /\ view = NothingDrawn
    /\ first = NoFirst
    /\ animationProgress = P0
    /\ InitApp /\ InitChat /\ NoStore /\ NoApi
    /\ tickI = 0
    /\ tickPc = "loop"
    /\ tickCalls = 0
    /\ \E rnd \in RandomStreams : tickX0 = D3Nodes(data.nodes.items, rnd)[1].x

NextLayout == RenderVisualizedGraph

NextReplay == Display \/ Replay

NextTicks == Tick

\* the page has rendered for the first time; its effects have not run
InitStore ==
    /\ NoRender /\ InitApp /\ InitChat /\ NoTicks /\ NoApi
    /\ storage \in StoredTexts
    /\ storePc = "mounted"
    /\ queued = NoUpdate
    /\ storedAtMount = storage
    /\ reloads = 0

\* the backend is listening
InitApi ==
    /\ NoRender /\ InitApp /\ InitChat /\ NoTicks /\ NoStore
    /\ apiKey \in {"undefined", "key"}
    /\ requests = [r \in 1..MaxRequests |-> IdleRequest]

NextApi == Receive \/ ListSettles \/ GenerateSettles

NextStore ==
    \/ LoadEffect
    \/ PersistEffect
    \/ RenderQueued
    \/ HistoryChanges
    \/ Reload

NextChat ==
    \/ SetInput
    \/ SetActiveTab
    \/ OnSend
    \/ OnResponse
    \/ OnError
    \/ OnViewReasoning
    \/ OnSelectHistory
    \/ CaptureTimerFires
    \/ CaptureWait

Next ==
    \/ HandleSendMessage /\ UNCHANGED chatVars
    \/ ResponseArrives /\ UNCHANGED chatVars
    \/ RequestFails /\ UNCHANGED chatVars
    \/ HandleViewReasoning /\ UNCHANGED chatVars
    \/ HandleSelectHistoryItem /\ UNCHANGED chatVars
    \/ CaptureTimerFires
    \/ ToggleAutoRotate
    \/ ReplayClick
    \/ TearDown
    \/ Frame

SpecLayout == InitLayout /\ [][NextLayout]_vars

SpecLane == InitLane /\ [][NextLayout]_vars

SpecReplay == InitReplay /\ [][NextReplay]_vars

SpecStyle == InitStyle /\ [][NextLayout]_vars

SpecTicks == InitTicks /\ [][NextTicks]_vars

SpecChat == Init /\ [][NextChat]_vars

SpecStore == InitStore /\ [][NextStore]_vars

SpecApi == InitApi /\ [][NextApi]_vars

Spec == Init /\ [][Next]_vars

\* the host keeps delivering frames whose timestamps grow: what a frame with
\* a positive gap does to the clock (no other step changes now)
Tock == \E gap \in FrameGaps : gap > 0 /\ now + gap <= MaxTime /\ now' = now + gap

SpecLive == Spec /\ WF_now(Tock)

(***************************************************************************)
(* Properties of the layout solver and of the drawn edges.                 *)
(***************************************************************************)
Rendered == lpc # "props"

InputNodeIds == NodeIds(data.nodes.items)

Dangling(e) == e.source \notin InputNodeIds \/ e.target \notin InputNodeIds

\* C1: when the node list is empty, missing or no array, the layout is the
\* empty mapping, nothing is thrown, and the component draws nothing.
C1_EmptyInputEmptyLayout ==
    (Rendered /\ (data.nodes.kind # "array" \/ Len(data.nodes.items) = 0))
        => /\ ~layout.threw
           /\ DOMAIN layout.nodePositions = {}
           /\ view = NothingDrawn

C1_Witness ==
    /\ Rendered
    /\ data.nodes.kind = "missing"
    /\ Len(data.edges.items) > 0
    /\ view.null

\* n is finite and within [-bound, bound]
InRange(n, bound) == IsFinite(n) /\ 0 - bound <= n.v /\ n.v <= bound

\* C2: every emitted position is finite, x and y lie in [-50, 50], z lies in
\* [-0.75, 0.75], and a simulated x or y that is not finite is emitted as 0.
C2_FiniteClamped ==
    Rendered =>
        /\ \A id \in DOMAIN layout.nodePositions :
              /\ InRange(layout.nodePositions[id].x, 50 * Scale)
              /\ InRange(layout.nodePositions[id].y, 50 * Scale)
              /\ InRange(layout.nodePositions[id].z, (3 * Scale) \div 4)
        /\ \A i \in DOMAIN layout.d3Nodes :
              (\A j \in DOMAIN layout.d3Nodes :
                    layout.d3Nodes[j].id = layout.d3Nodes[i].id => j <= i)
                 => /\ ~IsFinite(layout.d3Nodes[i].x)
                          => layout.nodePositions[layout.d3Nodes[i].id].x = Zero
                    /\ ~IsFinite(layout.d3Nodes[i].y)
                          => layout.nodePositions[layout.d3Nodes[i].id].y = Zero

C2_Witness ==
    /\ Rendered
    /\ Len(layout.d3Nodes) = 2
    /\ layout.d3Nodes[1].id # layout.d3Nodes[2].id
    /\ layout.d3Nodes[1].x = NaN /\ layout.d3Nodes[1].y = NegInf
    /\ layout.nodePositions[layout.d3Nodes[1].id].x = Zero
    /\ layout.d3Nodes[2].x = Fin(Far)
    /\ layout.nodePositions[layout.d3Nodes[2].id].x = Fin(50 * Scale)
    /\ layout.nodePositions[layout.d3Nodes[2].id].y = Fin(0 - (50 * Scale))

\* C3: for a non-empty node list the result holds a position for exactly the
\* node ids of the input: none is omitted, none is added.
C3_OnePositionPerNode ==
    (Rendered /\ data.nodes.kind = "array" /\ Len(data.nodes.items) > 0)
        => DOMAIN layout.nodePositions = InputNodeIds

C3_Witness ==
    /\ Rendered
    /\ Len(data.nodes.items) = 2
    /\ data.nodes.items[1].id # data.nodes.items[2].id
    /\ ~IsFinite(layout.d3Nodes[1].x)
    /\ ~layout.caught
    /\ DOMAIN layout.nodePositions = {"a", "b"}

\* C4: an edge with an endpoint that is no node id is not among the links
\* given to the link force and is not drawn.
C4_DanglingEdgesExcluded ==
    Rendered =>
        /\ \A i \in DOMAIN layout.d3Links : ~Dangling(layout.d3Links[i])
        /\ \A i \in view.edges : ~Dangling(data.edges.items[i])

C4_Witness ==
    /\ Rendered
    /\ layout.ran /\ ~layout.caught
    /\ \E i, j \in DOMAIN data.edges.items :
          /\ Dangling(data.edges.items[i])
          /\ i \notin view.edges
          /\ j \in view.edges
    /\ Len(layout.d3Links) = 1

\* C5: a drawn edge has both endpoints at finite positions at least 0.01
\* apart; a self-loop is never drawn.
C5_DrawnEdgesLongEnough ==
    Rendered =>
        \A i \in view.edges :
            LET e == data.edges.items[i]
            IN  /\ e.source \in DOMAIN layout.nodePositions
                /\ e.target \in DOMAIN layout.nodePositions
                /\ FinitePoint(layout.nodePositions[e.source])
                /\ FinitePoint(layout.nodePositions[e.target])
                /\ DistSq(layout.nodePositions[e.source], layout.nodePositions[e.target])
                      >= (Scale \div 100) * (Scale \div 100)
                /\ e.source # e.target

C5_Witness ==
    /\ Rendered
    /\ ~view.null
    /\ \E i, j \in DOMAIN data.edges.items :
          /\ data.edges.items[i].source = data.edges.items[i].target
          /\ data.edges.items[i].source \in InputNodeIds
          /\ i \notin view.edges
          /\ j \in view.edges

\* C12: a layout run leaves the snapshot as it was (its stages, nodes and
\* edges, every field of each), and every object the simulation writes to is
\* one of the solver's own copies.
C12_SnapshotNotMutated ==
    [][/\ data' = data
       /\ layout'.written \cap SnapshotAddrs(data) = {}]_vars

C12_Witness ==
    /\ Rendered
    /\ Len(layout.d3Links) = 1
    /\ Cardinality(layout.written) = 3
    /\ layout.d3Nodes[1].x = Fin(Far)
    /\ data.nodes.items[1] = MkNode("a", "s1")
    /\ data.edges.items[1] = MkEdge("a", "b")

\* C13: two invocations of the layout on the same snapshot, the display and a
\* replay, give every node the same position.
C13_SameSnapshotSamePositions ==
    lpc = "replayed" =>
        /\ DOMAIN layout.nodePositions = DOMAIN first.nodePositions
        /\ \A id \in DOMAIN first.nodePositions :
              layout.nodePositions[id] = first.nodePositions[id]

\* the progresses up to the one of this render
FracLe(p, q) == ~FracLess(q, p)

Earlier == {q \in ProgressValues : FracLe(q, animationProgress)}

\* C15: at every progress in [0, 1] a drawn edge has opacity max(0.1, p/2) and
\* width max(0.1, p), a drawn node has scale max(0.01, p) and a stage label has
\* opacity max(0.01, p); none is below its floor, none is larger at a smaller
\* progress; a sphere's radius is at least 0.1 whatever the importance.
C15_FlooredAndMonotone ==
    Rendered =>
        /\ FracLe(P0, animationProgress) /\ FracLe(animationProgress, P1)
        /\ \A i \in view.edges :
              /\ view.lines[i].opacity =
                    FracMax(Frac(1, 10), Frac(animationProgress.num, 2 * animationProgress.den))
              /\ view.lines[i].lineWidth = FracMax(Frac(1, 10), animationProgress)
              /\ FracLe(Frac(1, 10), view.lines[i].opacity)
              /\ FracLe(Frac(1, 10), view.lines[i].lineWidth)
              /\ \A q \in Earlier :
                    /\ FracLe(EdgeOpacity(q), view.lines[i].opacity)
                    /\ FracLe(LineWidth(q), view.lines[i].lineWidth)
        /\ \A i \in view.nodes :
              /\ view.spheres[i].scale = FracMax(Frac(1, 100), animationProgress)
              /\ FracLe(Frac(1, 100), view.spheres[i].scale)
              /\ \A q \in Earlier : FracLe(NodeScale(q), view.spheres[i].scale)
              /\ IsFinite(view.spheres[i].radius)
              /\ view.spheres[i].radius.v >= Scale \div 10
        /\ \A i \in view.labels :
              /\ view.texts[i].fillOpacity = FracMax(Frac(1, 100), animationProgress)
              /\ FracLe(Frac(1, 100), view.texts[i].fillOpacity)
              /\ \A q \in Earlier : FracLe(LabelOpacity(q), view.texts[i].fillOpacity)

C15_Witness ==
    /\ Rendered
    /\ animationProgress = P0
    /\ view.edges = {1}
    /\ view.nodes = {1, 2}
    /\ view.labels = {1, 2}
    /\ data.nodes.items[1].importance = Fin(0 - (5 * Scale))
    /\ view.spheres[1].radius = Fin(Scale \div 10)
    /\ view.lines[1].opacity = Frac(1, 10)

\* (((ordinal * 1337) mod 100) / 100 - 0.5) * 1.5, in fixed point
ZOfOrdinal(ordinal) == ((((ordinal * 1337) % 100) * (3 * Scale)) \div 200) - ((3 * Scale) \div 4)

\* C20: a node's z is ((ordinal * 1337) mod 100) / 100 - 0.5, times 1.5, of
\* its ordinal in the node list, whatever the seeds, the simulation, the edges
\* and the node's id; so it is the same whenever the node list is.
C20_DepthFromOrdinal ==
    (Rendered /\ data.nodes.kind = "array") =>
        \A i \in DOMAIN data.nodes.items :
            (\A j \in DOMAIN data.nodes.items :
                  data.nodes.items[j].id = data.nodes.items[i].id => j <= i)
               => layout.nodePositions[data.nodes.items[i].id].z = Fin(ZOfOrdinal(i - 1))

C20_Witness ==
    /\ Rendered
    /\ Len(data.nodes.items) = 2
    /\ data.nodes.items[2].id = "a"
    /\ data.nodes.items[1].id = "b"
    /\ Len(layout.d3Links) = 1
    /\ layout.d3Nodes[2].x = NaN
    /\ layout.nodePositions["a"].z = Fin(0 - 39)
    /\ layout.nodePositions["b"].z = Fin(0 - 150)

\* C9: when the simulation throws, the exception is caught and the layout
\* returned is the empty mapping.
C9_ExceptionGivesEmptyLayout ==
    (Rendered /\ layout.caught)
        => /\ ~layout.threw
           /\ DOMAIN layout.nodePositions = {}

\* C10: with n stages the stage at index i has lane target -W/2 + (i/(n-1))*W
\* for n > 1 and 0 for n = 1; the targets increase strictly with the index.
C10_LaneTargets ==
    (Rendered /\ layout.ran) =>
        LET st == StagesOf(data)
            n == Len(st)
            W == 6 * Scale
            X(i) == layout.stageX[st[i].id]
        IN  /\ n > 1 => \A i \in 1..n : X(i) * (n - 1) = ((i - 1) * W) - ((W \div 2) * (n - 1))
            /\ n > 1 => \A i, j \in 1..n : i < j => X(i) < X(j)
            /\ n = 1 => X(1) = 0
            /\ n = 1 => \A k \in DOMAIN layout.d3Nodes :
                            layout.d3Nodes[k].stage_id = st[1].id => layout.laneX[k] = Zero

\* the ids of the stage list
StageIdsOf(d) == {StagesOf(d)[i].id : i \in DOMAIN StagesOf(d)}

\* C11: a node whose stage_id names no stage of the stage list (also when the
\* list is empty or missing) has lane target 0; the layout does not throw and
\* holds a position for the node.
C11_UnmatchedStageTargetsZero ==
    (Rendered /\ layout.ran) =>
        \A k \in DOMAIN layout.d3Nodes :
            layout.d3Nodes[k].stage_id \notin StageIdsOf(data)
                => /\ layout.laneX[k] = Zero
                   /\ ~layout.threw
                   /\ layout.d3Nodes[k].id \in DOMAIN layout.nodePositions

(***************************************************************************)
(* Properties of the animation driver.                                     *)
(***************************************************************************)
\* Idle: no instance; Running: its tick is pending; Complete: none is.
DriverState ==
    IF ~vg.mounted THEN "Idle"
    ELSE IF \E e \in raf : e.id = vg.animId THEN "Running"
    ELSE "Complete"

Ticked == vg.mounted /\ obs.lastTickAt # Undefined

\* C6: the tick at the playback's start time yields progress 0; a tick 1500 ms
\* after the start time yields progress 1 and leaves the driver Complete; a
\* driver that never ticked is Running, one with no instance is Idle.
C6_StartAndEndTicks ==
    /\ (Ticked /\ obs.lastTickAt = obs.firstTickAt) => vg.progress = P0
    /\ (Ticked /\ obs.lastTickAt = obs.firstTickAt + Duration)
          => vg.progress = P1 /\ DriverState = "Complete"
    /\ (vg.mounted /\ ~Ticked) => DriverState = "Running" /\ vg.progress = P0

\* C7: progress stays in [0, 1] and, while an instance is displayed, drops
\* only on a replay request or when the snapshot's identity changes.
C7_ProgressDropsOnlyOnReplayOrNewData ==
    [][/\ ~FracLess(vg'.progress, P0) /\ ~FracLess(P1, vg'.progress)
       /\ (vg.mounted /\ vg'.mounted /\ FracLess(vg'.progress, vg.progress))
             => (replayTrigger' # replayTrigger \/ vizData' # vizData)]_vars

\* C8: at most one tick is pending, it belongs to the effect run that is
\* live, and no tick of a run that was cleaned up is ever run.
C8_OnlyLiveTickPending ==
    /\ Cardinality(raf) <= 1
    /\ \A e \in raf : vg.mounted /\ e.run = vg.run /\ e.id = vg.animId
    /\ ~obs.staleTickRan

C8_Witness ==
    /\ obs.cancelledPending
    /\ ~vg.mounted
    /\ vizMode = "THINKING"
    /\ raf = {}
    /\ now > 0

\* this step ran the body of the layout memo
LayoutRan == obs'.layoutRuns # obs.layoutRuns

Delivered(i) == history'[i].captures # history[i].captures

\* C16: a capture is delivered only for the fresh answer that requested it,
\* once, and not before 800 ms after the request; the timeout is pending only
\* while that request stands, so a request withdrawn by a new question, by a
\* history selection or by the teardown of the tree is never delivered.
C16_CaptureOnceAfterDelay ==
    /\ [](captureTimer # Undefined
            => alive /\ currentVizId # 0 /\ vizMode = "VISUALIZING"
                 /\ vizData = currentVizId)
    /\ [](\A i \in DOMAIN history : history[i].captures <= 1)
    /\ [][/\ \A i \in DOMAIN history :
               Delivered(i) => /\ captureTimer # Undefined
                               /\ now >= captureTimer
                               /\ history[i].id = currentVizId
                               /\ history[i].captures = 0
                               /\ captureTimer' = Undefined
          /\ (captureTimer' # Undefined /\ captureTimer' # captureTimer)
                => /\ captureTimer' = now' + CaptureDelay
                   /\ Len(history') = Len(history) + 1
                   /\ currentVizId' = history'[Len(history')].id
          /\ (currentVizId # 0 /\ (currentVizId' = 0 \/ ~alive'))
                => captureTimer' = Undefined]_vars

C16_Witness ==
    /\ Len(history) = 2
    /\ history[1].captures = 0
    /\ history[2].captures = 1
    /\ captureTimer = Undefined
    /\ vizData = 2

\* the last tick saw raw progress 1
Done == vg.mounted /\ Ticked /\ vg.progress = P1

\* C17: a driver whose last tick saw raw progress 1 has progress 1 and no tick
\* pending, and stays so until a replay request or a new snapshot; a driver
\* whose last tick saw less has exactly one tick pending.
C17_CompleteIsAbsorbing ==
    /\ [](Done => DriverState = "Complete")
    /\ []((Ticked /\ FracLess(vg.progress, P1))
            => (DriverState = "Running" /\ Cardinality(raf) = 1))
    /\ [][(Done /\ alive' /\ vizMode' = vizMode /\ vizData' = vizData
              /\ replayTrigger' = replayTrigger)
            => (vg'.mounted /\ vg'.progress = P1 /\ raf' = {})]_vars

\* the smallest positive gap between two frames
MinGap == CHOOSE g \in FrameGaps : g > 0 /\ \A h \in FrameGaps : h > 0 => g <= h

\* every time at which the frames may stop is at least Duration after start
TimeLeft(start) == start + Duration <= (MaxTime - MinGap) + 1

Playing ==
    /\ vg.mounted
    /\ vg.start # Undefined
    /\ FracLess(vg.progress, P1)
    /\ TimeLeft(vg.start)

Started == vg.mounted /\ vg.start = Undefined /\ TimeLeft(now)

\* C18: a playback that has ticked and whose start leaves the clock 1500 ms
\* reaches progress 1 with no tick pending, unless it is reset or unmounted
\* first; and a playback that was started gets its first tick.
C18_EventuallyComplete ==
    /\ Playing ~> (\/ (Done /\ DriverState = "Complete")
                   \/ ~vg.mounted
                   \/ vg.start = Undefined
                   \/ ~TimeLeft(vg.start))
    /\ Started ~> (~vg.mounted \/ vg.start # Undefined \/ ~TimeLeft(now))

C18_Witness ==
    /\ Done
    /\ DriverState = "Complete"
    /\ obs.firstTickAt = 700
    /\ obs.lastTickAt = 2200
    /\ vg.start = 700

\* C19: within one playback the start is recorded once and kept, every tick
\* shows the easing of min((now - start) / 1500, 1) against the time of the
\* playback's first tick (also when that time is 0), and ticks at the same
\* time show the same progress.
C19_StartRecordedOnce ==
    /\ [](Ticked => /\ vg.start = obs.firstTickAt
                    /\ vg.progress =
                          EaseCubicOut(RawProgress(obs.lastTickAt, obs.firstTickAt)))
    /\ [][(vg.mounted /\ vg'.mounted /\ vg.start # Undefined /\ vg'.start # Undefined)
            => vg'.start = vg.start]_vars

\* C21: the still image of a fresh answer's layout is taken only once that
\* layout's entrance animation has settled: at the step that delivers a
\* capture the displayed driver is Complete with progress 1.
C21_CaptureAfterSettled ==
    [][\A i \in DOMAIN history :
          Delivered(i) => (Done /\ DriverState = "Complete")]_vars

(***************************************************************************)
(* Properties of the tick loop.                                            *)
(***************************************************************************)
\* C22 as stated: whenever the loop has ended, simulation.tick() was called
\* exactly 300 times, whatever the ticks left in the coordinates.
C22_AlwaysThreeHundredSteps ==
    tickPc \in {"done", "caught"} => tickCalls = TickLimit

\* C22: the loop never makes more than 300 steps, every pass makes one, and
\* it ends after exactly 300 steps unless a step throws or leaves the first
\* node's x non-finite, in which case that step is the last.
C22_AtMostThreeHundredSteps ==
    /\ [](tickCalls <= TickLimit)
    /\ []((tickPc = "done" /\ IsFinite(tickX0)) => tickCalls = TickLimit)
    /\ []((tickPc = "loop") => (tickCalls = tickI /\ IsFinite(tickX0)))
    /\ [][/\ tickCalls' \in {tickCalls, tickCalls + 1}
          /\ (tickPc' = "loop") => tickCalls' = tickCalls + 1
          /\ (tickPc' = "caught" \/ ~IsFinite(tickX0')) => tickPc' # "loop"]_vars

C22_Witness ==
    /\ tickPc = "done"
    /\ tickCalls = TickLimit
    /\ IsFinite(tickX0)
    /\ tickX0 = Fin(Far)

(***************************************************************************)
(* Properties of the transcript, of history and of the capture.            *)
(***************************************************************************)
\* the messages shown as thinking
Thinkers == {i \in DOMAIN messages : messages[i].isThinking}

\* this step accepted a send
Sent == nSends' # nSends

\* C23: no step sends while the input is blank or a send is in progress, so
\* at most one request is in flight and at most one message is thinking;
\* an accepted send appends the user message and then its placeholder, and
\* nothing else appends, so the transcript alternates user, ai.
C23_OneSendAtATime ==
    /\ [](Cardinality(inFlight) <= 1)
    /\ [](Cardinality(Thinkers) <= 1)
    /\ [](\A i \in DOMAIN messages :
             messages[i].role = (IF i % 2 = 1 THEN "user" ELSE "ai"))
    /\ [][/\ (input \in {"", " "} \/ isSending)
               => (~Sent /\ Len(messages') = Len(messages)
                     /\ inFlight' \subseteq inFlight)
          /\ Sent => /\ Len(messages') = Len(messages) + 2
                      /\ SubSeq(messages', 1, Len(messages)) = messages
                      /\ messages'[Len(messages) + 1].role = "user"
                      /\ messages'[Len(messages) + 1].text = "q"
                      /\ messages'[Len(messages) + 2].role = "ai"
                      /\ messages'[Len(messages) + 2].isThinking
                      /\ inFlight' = {messages'[Len(messages) + 2].id}
                      /\ isSending'
          /\ Len(messages') # Len(messages) => Sent]_vars

C23_Witness ==
    /\ Len(messages) = 4
    /\ Thinkers = {4}
    /\ inFlight = {4}
    /\ isSending
    /\ input = ""
    /\ messages[2].text = Sorry

\* the placeholders whose request settles in this step
Settling == inFlight \ inFlight'

\* C24: while a request is in flight isSending holds and its placeholder is
\* the thinking message; the step in which the request settles, resolved or
\* rejected, leaves isSending false and the placeholder not thinking, with
\* the answer or the error text, and changes no other message.
C24_SettledSendIsResolved ==
    /\ [](isSending <=> inFlight # {})
    /\ [](\A i \in DOMAIN messages :
             messages[i].isThinking <=> messages[i].id \in inFlight)
    /\ [][Settling # {}
            => /\ ~isSending'
               /\ Len(messages') = Len(messages)
               /\ \A i \in DOMAIN messages :
                     IF messages[i].id \in Settling
                     THEN /\ ~messages'[i].isThinking
                          /\ messages'[i].text \in {Answer, Sorry}
                          /\ messages'[i].role = "ai"
                     ELSE messages'[i] = messages[i]]_vars

C24_Witness ==
    /\ Len(messages) = 4
    /\ messages[2].text = Sorry
    /\ messages[4].text = Answer
    /\ ~isSending
    /\ Thinkers = {}

\* C25: in IDLE and in THINKING mode no trace is displayed and no history
\* item is active, and while a request is in flight the mode is THINKING.
C25_TraceImpliesVisualizing ==
    /\ vizMode \in {"IDLE", "THINKING"} => (vizData = 0 /\ activeHistoryItem = 0)
    /\ isSending => vizMode = "THINKING"

\* the history items this step changed
Touched == {i \in DOMAIN history : history'[i] # history[i]}

\* C26: a pending capture request names the item appended last, whose trace
\* is the displayed one, in VISUALIZING mode; a step that changes an item of
\* history is the capture for the requested item: it sets that item's
\* thumbnail, changes no other item and clears the request; and the handler
\* leaves history as it is when no request is pending.
C26_ThumbnailOnDisplayedItem ==
    /\ [](currentVizId # 0
            => /\ Len(history) > 0
               /\ currentVizId = history[Len(history)].id
               /\ vizData = currentVizId
               /\ vizMode = "VISUALIZING")
    /\ [](HandleThumbnailCapture(history, 0) = history)
    /\ [][/\ \A i \in Touched :
                 /\ history[i].id = currentVizId
                 /\ vizData = history[i].id
                 /\ history'[i].thumbnail
                 /\ history'[i].id = history[i].id
                 /\ Touched = {i}
                 /\ currentVizId' = 0
          /\ Len(history') >= Len(history)]_vars

C26_Witness ==
    /\ Len(history) = 2
    /\ history[1].thumbnail
    /\ history[2].thumbnail
    /\ currentVizId = 0
    /\ vizData = 2
    /\ vizMode = "VISUALIZING"

\* the trace ids the transcript carries
TraceIds == {messages[i].traceId : i \in DOMAIN messages} \ {0}

\* C27: history only grows, by one item per resolved request, and the new
\* item's id becomes the traceId of that request's placeholder alone; a
\* rejected request leaves history and every traceId as they are and sets
\* the mode to IDLE; so every traceId of the transcript names an item of
\* history, only AI messages carry one, and no two messages share one.
C27_HistoryMatchesTranscript ==
    /\ [](\A i \in DOMAIN messages :
             messages[i].traceId # 0
                => /\ messages[i].role = "ai"
                   /\ \E h \in DOMAIN history : history[h].id = messages[i].traceId
                   /\ \A j \in DOMAIN messages :
                         messages[j].traceId = messages[i].traceId => j = i)
    /\ [](\A h, k \in DOMAIN history : history[h].id = history[k].id => h = k)
    /\ [][/\ Len(history') \in {Len(history), Len(history) + 1}
          /\ \A h \in DOMAIN history : history'[h].id = history[h].id
          /\ Len(history') = Len(history) + 1
                => /\ Cardinality(Settling) = 1
                   /\ \A i \in DOMAIN messages :
                         IF messages[i].id \in Settling
                         THEN messages'[i].traceId = history'[Len(history')].id
                         ELSE messages'[i].traceId = messages[i].traceId
          /\ (Settling # {} /\ Len(history') = Len(history))
                => /\ history' = history
                   /\ \A i \in DOMAIN messages :
                         messages'[i].traceId = messages[i].traceId
                   /\ vizMode' = "IDLE"
          /\ Settling = {}
                => \A i \in DOMAIN messages :
                      i \in DOMAIN messages' /\ messages'[i].traceId = messages[i].traceId]_vars

C27_Witness ==
    /\ Len(messages) = 4
    /\ Len(history) = 1
    /\ messages[2].text = Sorry
    /\ messages[2].traceId = 0
    /\ messages[4].traceId = history[1].id
    /\ TraceIds = {1}

(***************************************************************************)
(* Properties of the history effects.                                      *)
(***************************************************************************)
\* what of a history its items carry: id and whether a thumbnail is set
ItemsOf(hist) ==
    [i \in DOMAIN hist |-> [id |-> hist[i].id, thumbnail |-> hist[i].thumbnail]]

\* the effects of the mount and of every change have run
Quiet == storePc = "idle"

\* C28: once the effects have run and the queued update is rendered, history
\* and the stored text both hold what storage held at the mount, when that
\* parsed; the write of the empty initial history does not outlast the
\* mount; and after every later change of history the stored text is the
\* current history.
C28_HistoryRoundTrips ==
    /\ []((Quiet /\ storage.kind = "json")
            => ItemsOf(JsonParse(storage)) = ItemsOf(history))
    /\ [](Quiet => storage = JsonStringify(history))
    /\ []((Quiet /\ storedAtMount.kind = "json")
            => /\ Len(history) >= Len(storedAtMount.items)
               /\ \A i \in DOMAIN storedAtMount.items :
                     /\ history[i].id = storedAtMount.items[i].id
                     /\ ("thumbnail" \in DOMAIN storedAtMount.items[i])
                           => (history[i].thumbnail
                                 /\ "thumbnail" \in DOMAIN storage.items[i]))
    /\ [][/\ (storePc = "queued" /\ storePc' = "changed")
               => /\ storedAtMount.kind = "json"
                  /\ ItemsOf(history') = ItemsOf(JsonParse(storedAtMount))
          /\ (storePc = "changed" /\ storePc' = "idle" /\ JsonStringify(history) # storage)
               => storage' = JsonStringify(history)
          /\ (storePc = "loaded" /\ storePc' = "idle")
               => (storedAtMount.kind # "json" /\ history = <<>>)]_vars

\* a reload brought back a history of two items, one with its thumbnail,
\* that the session before had built
C28_Witness ==
    /\ Quiet
    /\ reloads = 1
    /\ Len(history) = 2
    /\ history[2].thumbnail
    /\ ~history[1].thumbnail
    /\ storedAtMount = storage
    /\ history[2].captures = 0

(***************************************************************************)
(* Properties of the backend's handler.                                    *)
(***************************************************************************)
RequiredKeys == {"stages", "nodes", "edges", "steps", "key_factors"}

Answered(r) == requests[r].pc = "done"

TheResponse(r) == requests[r].responses[1]

\* C29: a request gets one response, sent when its handler is done: 400 for
\* a missing prompt and 500 for a missing key, with no upstream call; 502
\* for a ListModels or generateContent text that does not parse and for an
\* upstream error object; for model text that is not JSON, a success whose
\* answer is that text and whose explain_trace is the default empty trace;
\* and every success carries an explain_trace object with stages, nodes,
\* edges, steps and key_factors.
C29_OneResponsePerRequest ==
    \A r \in 1..MaxRequests :
        /\ Len(requests[r].responses) = (IF Answered(r) THEN 1 ELSE 0)
        /\ Answered(r) =>
              /\ PromptMissing(requests[r].prompt)
                    => (TheResponse(r).status = 400 /\ requests[r].upstream = 0)
              /\ (~PromptMissing(requests[r].prompt) /\ apiKey = "undefined")
                    => (TheResponse(r).status = 500 /\ requests[r].upstream = 0)
              /\ requests[r].list = "unparsable" => TheResponse(r).status = 502
              /\ requests[r].generate.kind \in {"unparsable", "error"}
                    => TheResponse(r).status = 502
              /\ (requests[r].generate.kind = "text"
                     /\ JsonParseOutput(requests[r].generate.rawText).kind = "invalid")
                    => /\ TheResponse(r).status = 200
                       /\ TheResponse(r).body.answer = requests[r].generate.rawText
                       /\ TheResponse(r).body.trace = DefaultExplainTrace
              /\ TheResponse(r).status = 200
                    => /\ TheResponse(r).body.kind = "object"
                       /\ TheResponse(r).body.trace.kind = "object"
                       /\ RequiredKeys \subseteq TheResponse(r).body.trace.keys

====
